---- MODULE Spec2Model ----
(***************************************************************************)
(* A model of the CPR appropriation grid environment (CPRGridEnv) of       *)
(* src/src/gym_cpr_grid/gym_cpr_grid/cpr_grid.py, and of the Trajectory    *)
(* of src/src/memory.py that records the rewards of an agent.              *)
(*                                                                         *)
(* Python lists are TLA+ sequences: Python index i is TLA+ index i + 1.    *)
(* The grid is a sequence of rows (index y + 1) of cells (index x + 1).    *)
(***************************************************************************)
EXTENDS Naturals, Integers, Sequences, FiniteSets, TLC

VARIABLES
    n_agents,         \* self.n_agents, fixed at construction
    grid_width,       \* self.grid_width, fixed at construction
    grid_height,      \* self.grid_height, fixed at construction
    elapsed_steps,    \* self.elapsed_steps
    agent_positions,  \* self.agent_positions, a list of poses [x, y, o]
    grid,             \* self.grid, grid[y + 1][x + 1]
    done_seen,        \* a step since the last reset returned done for all agents
    pc,               \* the caller: "ready" to call, or holding what a call "returned"
    call,             \* the call the caller made last, with its input
    ret,              \* what that call returned or raised
    trace,            \* the agents that call's loop processed, in order
    trajectory_rewards, \* Trajectory: self.rewards (rewards names step's local list)
    current_timestep  \* Trajectory: self.current_timestep

config == <<n_agents, grid_width, grid_height>>

env == <<elapsed_steps, agent_positions, grid>>

trajectory == <<trajectory_rewards, current_timestep>>

vars == <<n_agents, grid_width, grid_height, elapsed_steps, agent_positions, grid,
          done_seen, pc, call, ret, trace, trajectory_rewards, current_timestep>>

(***************************************************************************)
(* Construction parameters of the modelled environments.                   *)
(* CPRGridEnv(n_agents, grid_width, grid_height, fov_squares_front=2,      *)
(* fov_squares_side=1, ball_radius=1, max_steps=2).                        *)
(***************************************************************************)
fov_squares_front == 2
fov_squares_side == 1
ball_radius == 1
max_steps == 2

\* The agent counts and grid sizes the environments are constructed with.
Configs ==
    {[n_agents |-> 1, grid_width |-> 2, grid_height |-> 2],
     [n_agents |-> 2, grid_width |-> 3, grid_height |-> 1]}

\* step is called only while elapsed_steps is below this bound.
MaxElapsed == 3

(***************************************************************************)
(* Enumerations.                                                           *)
(***************************************************************************)
STEP_FORWARD == 0
STEP_BACKWARD == 1
STEP_LEFT == 2
STEP_RIGHT == 3
ROTATE_LEFT == 4
ROTATE_RIGHT == 5
STAND_STILL == 6
TAG == 7
AgentAction == STEP_FORWARD..TAG

\* A value that is not an instance of AgentAction.
NotAnAction == TAG + 1

UP == 0
RIGHT == 1
DOWN == 2
LEFT == 3
AgentOrientation == UP..LEFT

EMPTY == 0
RESOURCE == 1
AGENT == 2
GridCell == EMPTY..AGENT

RESOURCE_COLLECTION_REWARD == 1

(***************************************************************************)
(* AgentOrientation and AgentPosition.                                     *)
(***************************************************************************)
OrientationSize == Cardinality(AgentOrientation)

\* OrientationRotateLeft without the modulo.
OrientationRotateLeftNoWrap(o) == o - 1

OrientationRotateLeft(o) == (o - 1) % OrientationSize

OrientationRotateRight(o) == (o + 1) % OrientationSize

AgentPosition(x, y, o) == [x |-> x, y |-> y, o |-> o]

step_forward(p) ==
    IF p.o = UP THEN AgentPosition(p.x, p.y - 1, p.o)
    ELSE IF p.o = RIGHT THEN AgentPosition(p.x + 1, p.y, p.o)
    ELSE IF p.o = DOWN THEN AgentPosition(p.x, p.y + 1, p.o)
    ELSE IF p.o = LEFT THEN AgentPosition(p.x - 1, p.y, p.o)
    ELSE p

\* step_backward whatever the orientation is.
step_backward_unturned(p) == AgentPosition(p.x, p.y + 1, p.o)

step_backward(p) ==
    IF p.o = UP THEN AgentPosition(p.x, p.y + 1, p.o)
    ELSE IF p.o = RIGHT THEN AgentPosition(p.x - 1, p.y, p.o)
    ELSE IF p.o = DOWN THEN AgentPosition(p.x, p.y - 1, p.o)
    ELSE IF p.o = LEFT THEN AgentPosition(p.x + 1, p.y, p.o)
    ELSE p

step_left(p) ==
    IF p.o = UP THEN AgentPosition(p.x - 1, p.y, p.o)
    ELSE IF p.o = RIGHT THEN AgentPosition(p.x, p.y - 1, p.o)
    ELSE IF p.o = DOWN THEN AgentPosition(p.x + 1, p.y, p.o)
    ELSE AgentPosition(p.x, p.y + 1, p.o)

\* step_right going to the agent's left.
step_right_mirrored(p) == step_left(p)

step_right(p) ==
    IF p.o = UP THEN AgentPosition(p.x + 1, p.y, p.o)
    ELSE IF p.o = RIGHT THEN AgentPosition(p.x, p.y + 1, p.o)
    ELSE IF p.o = DOWN THEN AgentPosition(p.x - 1, p.y, p.o)
    ELSE AgentPosition(p.x, p.y - 1, p.o)

rotate_left(p) == AgentPosition(p.x, p.y, OrientationRotateLeft(p.o))

rotate_right(p) == AgentPosition(p.x, p.y, OrientationRotateRight(p.o))

stand_still(p) == p

\* tag as a step forward.
tag_forward(p) == step_forward(p)

tag(p) == p

\* The caller checks isinstance(action, AgentAction) first (IsAgentAction).
IsAgentAction(action) == action \in AgentAction

get_new_position(p, action) ==
    CASE action = STEP_FORWARD -> step_forward(p)
      [] action = STEP_BACKWARD -> step_backward(p)
      [] action = STEP_LEFT -> step_left(p)
      [] action = STEP_RIGHT -> step_right(p)
      [] action = ROTATE_LEFT -> rotate_left(p)
      [] action = ROTATE_RIGHT -> rotate_right(p)
      [] action = STAND_STILL -> stand_still(p)
      [] action = TAG -> tag(p)

(***************************************************************************)
(* Grid access.                                                            *)
(***************************************************************************)
Cell(g, x, y) == g[y + 1][x + 1]

SetCell(g, x, y, v) == [g EXCEPT ![y + 1] = [@ EXCEPT ![x + 1] = v]]

CellCoords(w, h) == (0..(w - 1)) \X (0..(h - 1))

_is_position_in_grid(position) ==
    IF position.x < 0 \/ position.x >= grid_width THEN FALSE
    ELSE IF position.y < 0 \/ position.y >= grid_height THEN FALSE
    ELSE TRUE

_is_position_occupied(g, position) == Cell(g, position.x, position.y) = AGENT

_is_move_feasible(g, position) ==
    _is_position_in_grid(position) /\ ~_is_position_occupied(g, position)

_has_resource(g, position) == Cell(g, position.x, position.y) = RESOURCE

_is_resource_depleted(g) ==
    Cardinality({c \in CellCoords(grid_width, grid_height) :
                    Cell(g, c[1], c[2]) = RESOURCE}) = 0

(***************************************************************************)
(* numpy arrays: a 2D array is a sequence of rows.                         *)
(***************************************************************************)
Min(a, b) == IF a < b THEN a ELSE b

Max(a, b) == IF a > b THEN a ELSE b

Abs(a) == IF a < 0 THEN -a ELSE a

Shape(m) == <<Len(m), IF Len(m) = 0 THEN 0 ELSE Len(m[1])>>

\* np.rot90(m, k=1): a counterclockwise quarter turn.
Rot90Once(m) ==
    LET rows == Len(m)
        cols == Len(m[1])
    IN  [i \in 1..cols |-> [j \in 1..rows |-> m[j][cols + 1 - i]]]

RECURSIVE Rot90(_, _)
Rot90(m, k) == IF k = 0 THEN m ELSE Rot90(Rot90Once(m), k - 1)

\* Python's s[a:b] on a sequence, a and b integers.
PySlice(s, a, b) ==
    LET n == Len(s)
        lo == IF a < 0 THEN Max(a + n, 0) ELSE Min(a, n)
        hi == IF b < 0 THEN Max(b + n, 0) ELSE Min(b, n)
    IN  IF lo >= hi THEN <<>> ELSE SubSeq(s, lo + 1, hi)

\* m[sy:ey, sx:ex]
Slice2D(m, sy, ey, sx, ex) ==
    LET rows == PySlice(m, sy, ey)
    IN  [i \in 1..Len(rows) |-> PySlice(rows[i], sx, ex)]

\* np.pad(m, [y_pad_width, x_pad_width], constant_values=v)
NpPad(m, y_pad_width, x_pad_width, v) ==
    LET cols == Len(m[1]) + x_pad_width[1] + x_pad_width[2]
        blank == [j \in 1..cols |-> v]
        wide(row) == [j \in 1..cols |->
                        IF j > x_pad_width[1] /\ j <= x_pad_width[1] + Len(row)
                        THEN row[j - x_pad_width[1]] ELSE v]
    IN  [i \in 1..(Len(m) + y_pad_width[1] + y_pad_width[2]) |->
            IF i > y_pad_width[1] /\ i <= y_pad_width[1] + Len(m)
            THEN wide(m[i - y_pad_width[1]]) ELSE blank]

(***************************************************************************)
(* Field of view.                                                          *)
(***************************************************************************)
\* What _pad_grid returns for the pad widths it computed.
PadResult(g, x_pad_width, y_pad_width) ==
    [padded_grid |-> NpPad(g, y_pad_width, x_pad_width, EMPTY),
     x_pad_width |-> x_pad_width,
     y_pad_width |-> y_pad_width]

_pad_grid(g, x, y, xl, yl) ==
    PadResult(g,
              <<Abs(Min(x - xl, 0)), Max(x + xl - grid_width + 1, 0)>>,
              <<Abs(Min(y - yl, 0)), Max(y + yl - grid_height + 1, 0)>>)

\* The number of quarter turns that bring the agent's forward direction down.
FovRotation(o) ==
    IF o = LEFT THEN 1 ELSE IF o = UP THEN 2 ELSE IF o = RIGHT THEN 3 ELSE 0

\* The (row, column), from 1, of the entry (y, x) of the rotated coordinates.
ArgWhere(rotated_coords, y, x) ==
    CHOOSE rc \in (1..Len(rotated_coords)) \X (1..Len(rotated_coords[1])) :
        rotated_coords[rc[1]][rc[2]] = <<y, x>>

\* (rotated_y, rotated_x): the agent's cell in the rotated grid, from 0.
RotatedAgentCoords(agent_position, k) ==
    LET coords == [i \in 1..grid_height |-> [j \in 1..grid_width |-> <<i - 1, j - 1>>]]
        at == ArgWhere(Rot90(coords, k), agent_position.y, agent_position.x)
    IN  <<at[1] - 1, at[2] - 1>>

\* fov = padded_grid[sy:ey, sx:ex]
FovCrop(pad, rotated_x, rotated_y) ==
    Slice2D(pad.padded_grid,
            pad.y_pad_width[1] + rotated_y,
            pad.y_pad_width[1] + rotated_y + fov_squares_front,
            pad.x_pad_width[1] + rotated_x - fov_squares_side,
            pad.x_pad_width[1] + rotated_x + fov_squares_side + 1)

\* The padding and the crop, once the grid is rotated and the agent found.
FovOfRotated(rotated_grid, k, rotated_y, rotated_x) ==
    FovCrop(_pad_grid(rotated_grid, rotated_x, rotated_y,
                      fov_squares_side, fov_squares_front + (k % 2)),
            rotated_x, rotated_y)

FovTurned(g, agent_position, k, at) == FovOfRotated(Rot90(g, k), k, at[1], at[2])

FovTurn(g, agent_position, k) ==
    FovTurned(g, agent_position, k, RotatedAgentCoords(agent_position, k))

\* The window _extract_fov crops, before its shape assertion.
FovWindow(g, agent_position) == FovTurn(g, agent_position, FovRotation(agent_position.o))

\* The shape assertion of _extract_fov.
FovShapeOk(fov) == Shape(fov) = <<fov_squares_front, fov_squares_side * 2 + 1>>

FovChecked(fov) ==
    IF FovShapeOk(fov) THEN [raised |-> "none", fov |-> fov]
    ELSE [raised |-> "AssertionError", fov |-> fov]

_extract_fov(g, positions, agent_handle) ==
    FovChecked(FovWindow(g, positions[agent_handle + 1]))

\* matplotlib's colors.to_rgb, in units of 1/255.
ToRgb(name) ==
    CASE name = "black" -> <<0, 0, 0>>
      [] name = "green" -> <<0, 128, 0>>
      [] name = "red" -> <<255, 0, 0>>
      [] name = "blue" -> <<0, 0, 255>>

\* np.where(fov == code, to_rgb(color), fov) on the three channels of a cell,
\* the channels and the cell codes in units of 1/255.
WhereEqual(channels, code, color) ==
    [c \in 1..3 |-> IF channels[c] = code * 255 THEN ToRgb(color)[c] ELSE channels[c]]

\* np.stack((fov,) * 3, axis=-1), then RESOURCE cells green, then AGENT cells red.
CellColor(v) ==
    WhereEqual(WhereEqual(<<v * 255, v * 255, v * 255>>, RESOURCE, "green"), AGENT, "red")

\* fov[0, self.fov_squares_side] = the colour of the agent itself
MarkOwnAgent(colored) ==
    [colored EXCEPT ![1] = [@ EXCEPT ![fov_squares_side + 1] = ToRgb("blue")]]

Colored(ex) ==
    IF ex.raised # "none" THEN [raised |-> ex.raised, fov |-> <<>>]
    ELSE [raised |-> "none",
          fov |-> MarkOwnAgent([i \in 1..Len(ex.fov) |->
                     [j \in 1..Len(ex.fov[i]) |-> CellColor(ex.fov[i][j])]])]

_get_observation(g, positions, agent_handle) ==
    Colored(_extract_fov(g, positions, agent_handle))

(***************************************************************************)
(* reset.                                                                  *)
(***************************************************************************)
\* The values _random_position can return on a w by h grid.
RandomPositions(w, h) ==
    {AgentPosition(x, y, o) : x \in 0..(w - 1), y \in 0..(h - 1), o \in AgentOrientation}

\* The values np.random.randint(0, 2, size=(h, w), dtype=bool) can return.
ResourceMasks(w, h) == [1..h -> [1..w -> BOOLEAN]]

\* _get_initial_grid with the resources assigned whatever the cell holds.
_get_initial_grid_resources_anywhere(w, h, positions, resource_mask) ==
    LET agent_cells == {<<positions[i].x, positions[i].y>> : i \in 1..Len(positions)}
    IN  [i \in 1..h |-> [j \in 1..w |->
            IF resource_mask[i][j] THEN RESOURCE
            ELSE IF <<j - 1, i - 1>> \in agent_cells THEN AGENT
            ELSE EMPTY]]

_get_initial_grid(w, h, positions, resource_mask) ==
    LET agent_cells == {<<positions[i].x, positions[i].y>> : i \in 1..Len(positions)}
    IN  [i \in 1..h |-> [j \in 1..w |->
            IF <<j - 1, i - 1>> \in agent_cells THEN AGENT
            ELSE IF resource_mask[i][j] THEN RESOURCE
            ELSE EMPTY]]

(***************************************************************************)
(* step: the loop that moves the agents.                                   *)
(***************************************************************************)
\* The agent stands still when the move is not feasible.
Resolved(g, current_position, new_position) ==
    [raised |-> "none",
     candidate |-> new_position,
     position |-> IF ~_is_move_feasible(g, new_position)
                  THEN current_position ELSE new_position]

_compute_new_agent_position(g, positions, agent_handle, action) ==
    IF agent_handle \notin 0..(n_agents - 1)
    THEN [raised |-> "AssertionError"]
    ELSE IF ~IsAgentAction(action)
    THEN [raised |-> "AssertionError"]
    ELSE Resolved(g, positions[agent_handle + 1],
                  get_new_position(positions[agent_handle + 1], action))

\* MoveCells leaving a resource on the cell the agent comes from.
MoveCellsDroppingResource(g, current_position, new_position) ==
    SetCell(SetCell(g, new_position.x, new_position.y, AGENT),
            current_position.x, current_position.y, RESOURCE)

\* MoveCells with the two assignments in the other order.
MoveCellsEmptyLast(g, current_position, new_position) ==
    SetCell(SetCell(g, new_position.x, new_position.y, AGENT),
            current_position.x, current_position.y, EMPTY)

\* The two assignments of _move_agent, where current_position has been read.
MoveCells(g, current_position, new_position) ==
    SetCell(SetCell(g, current_position.x, current_position.y, EMPTY),
            new_position.x, new_position.y, AGENT)

\* current_position is read from positions, which the caller has updated.
_move_agent(g, positions, agent_handle, new_position) ==
    MoveCells(g, positions[agent_handle + 1], new_position)

\* rewards after the resource check of the loop.
Rewarded(rewards, g, agent_handle, new_agent_position) ==
    IF _has_resource(g, new_agent_position)
    THEN [rewards EXCEPT ![agent_handle + 1] = RESOURCE_COLLECTION_REWARD]
    ELSE rewards

\* Iterated with the grid of the next agent left as the agent found it.
IteratedOnOldGrid(st, agent_handle, action, computed, positions, rewards, moved) ==
    [raised |-> "none",
     grid |-> st.grid,
     positions |-> positions,
     rewards |-> rewards,
     trace |-> Append(st.trace,
         [agent_handle |-> agent_handle,
          action |-> action,
          old |-> st.positions[agent_handle + 1],
          candidate |-> computed.candidate,
          new |-> computed.position,
          reward |-> rewards[agent_handle + 1],
          grid_before |-> st.grid,
          grid_after |-> moved])]

\* The state of the loop after an iteration, and the record of it.
Iterated(st, agent_handle, action, computed, positions, rewards, moved) ==
    [raised |-> "none",
     grid |-> moved,
     positions |-> positions,
     rewards |-> rewards,
     trace |-> Append(st.trace,
         [agent_handle |-> agent_handle,
          action |-> action,
          old |-> st.positions[agent_handle + 1],
          candidate |-> computed.candidate,
          new |-> computed.position,
          reward |-> rewards[agent_handle + 1],
          grid_before |-> st.grid,
          grid_after |-> moved])]

\* Assigned with the grid updated before the resource is checked.
AssignedMoveFirst(st, agent_handle, action, computed, positions) ==
    Iterated(st, agent_handle, action, computed, positions,
             Rewarded(st.rewards,
                      _move_agent(st.grid, positions, agent_handle, computed.position),
                      agent_handle, computed.position),
             _move_agent(st.grid, positions, agent_handle, computed.position))

\* The iteration from the assignment to self.agent_positions on: the pose
\* is stored, then the resource is checked, then the grid is updated.
Assigned(st, agent_handle, action, computed, positions) ==
    Iterated(st, agent_handle, action, computed, positions,
             Rewarded(st.rewards, st.grid, agent_handle, computed.position),
             _move_agent(st.grid, positions, agent_handle, computed.position))

Computed(st, agent_handle, action, computed) ==
    IF computed.raised # "none" THEN [st EXCEPT !.raised = computed.raised]
    ELSE Assigned(st, agent_handle, action, computed,
                  [st.positions EXCEPT ![agent_handle + 1] = computed.position])

\* One iteration of the loop of step, for agent_handle and its action.
\* st holds the grid, the poses, the rewards and the trace so far.
MoveOneAgent(st, agent_handle, action) ==
    Computed(st, agent_handle, action,
             _compute_new_agent_position(st.grid, st.positions, agent_handle, action))

\* for agent_handle, action in enumerate(actions), from agent_handle on.
RECURSIVE MoveAllAgents(_, _, _)
MoveAllAgents(st, actions, agent_handle) ==
    IF agent_handle >= Len(actions) \/ st.raised # "none" THEN st
    ELSE MoveAllAgents(MoveOneAgent(st, agent_handle, actions[agent_handle + 1]),
                       actions, agent_handle + 1)

(***************************************************************************)
(* step: observations and respawn.                                         *)
(***************************************************************************)
\* for agent_handle in range(n_agents): observations = _get_observation(...)
\* The name observations is rebound at every iteration, so that the last
\* agent's observation is what is left; with no agent the initial list is.
ComputeObservations(g, positions) ==
    IF \E h \in 0..(n_agents - 1) : _extract_fov(g, positions, h).raised # "none"
    THEN [raised |-> "AssertionError"]
    ELSE IF n_agents = 0
    THEN [raised |-> "none", observations |-> [kind |-> "list", items |-> <<>>]]
    ELSE [raised |-> "none",
          observations |-> [kind |-> "ndarray",
                            array |-> _get_observation(g, positions, n_agents - 1).fov]]

\* padded_grid is the tuple _pad_grid returns; indexing it with a pair of
\* slices raises TypeError.
_extract_ball(g, x, y) == [raised |-> "TypeError"]

\* _respawn_probability with the last threshold one lower.
_respawn_probability_from_four(l) ==
    IF l = 1 \/ l = 2 THEN 1
    ELSE IF l = 3 THEN 5
    ELSE IF l >= 4 THEN 10
    ELSE 0

\* The probability that a resource respawns on a cell with l resources
\* nearby, in hundredths: 0.01 is 1, 0.05 is 5, 0.1 is 10.
_respawn_probability(l) ==
    IF l = 1 \/ l = 2 THEN 1
    ELSE IF l = 3 \/ l = 4 THEN 5
    ELSE IF l > 4 THEN 10
    ELSE 0

\* The cells in the order of itertools.product(range(w), range(h)).
RespawnOrder(w, h) == [k \in 1..(w * h) |-> <<(k - 1) \div h, (k - 1) % h>>]

\* The iterations of _respawn_resources from the k-th cell of the order on.
RECURSIVE RespawnFrom(_, _, _)
RespawnFrom(g, order, k) ==
    IF k > Len(order) THEN [raised |-> "none", grid |-> g]
    ELSE IF Cell(g, order[k][1], order[k][2]) = EMPTY
    THEN [raised |-> _extract_ball(g, order[k][1], order[k][2]).raised, grid |-> g]
    ELSE RespawnFrom(g, order, k + 1)

\* _respawn_resources putting a resource on every cell that holds an agent.
_respawn_resources_over_agents(g) ==
    [raised |-> RespawnFrom(g, RespawnOrder(grid_width, grid_height), 1).raised,
     grid |-> [i \in 1..Len(g) |-> [j \in 1..Len(g[i]) |->
                  IF g[i][j] = AGENT THEN RESOURCE ELSE g[i][j]]]]

_respawn_resources(g) == RespawnFrom(g, RespawnOrder(grid_width, grid_height), 1)

(***************************************************************************)
(* step.                                                                   *)
(***************************************************************************)
\* ActionsAccepted without the upper bound on the length.
ActionsAcceptedAtLeast(actions) == actions.is_list /\ Len(actions.items) >= n_agents

\* The assertion that opens step. An input of step is a Python value:
\* is_list tells whether it is a list, items are its elements.
ActionsAccepted(actions) == actions.is_list /\ Len(actions.items) = n_agents

\* What raising an exception leaves as the outcome of a call.
Raised(exception) == [status |-> exception]

\* The fields of the environment and the trace a call leaves, with its outcome.
Outcome(g, positions, elapsed, tr, r) ==
    [grid |-> g, positions |-> positions, elapsed_steps |-> elapsed,
     trace |-> tr, ret |-> r]

\* dones after the end-of-episode check.
Dones(g, elapsed) ==
    IF _is_resource_depleted(g) \/ elapsed = max_steps
    THEN [i \in 1..n_agents |-> TRUE]
    ELSE [i \in 1..n_agents |-> FALSE]

\* step from the respawn on.
StepRespawned(moved, elapsed, observed, respawned) ==
    IF respawned.raised # "none"
    THEN Outcome(moved.grid, moved.positions, elapsed, moved.trace,
                 Raised(respawned.raised))
    ELSE Outcome(respawned.grid, moved.positions, elapsed, moved.trace,
                 [status |-> "ok",
                  observations |-> observed.observations,
                  rewards |-> moved.rewards,
                  dones |-> Dones(moved.grid, elapsed),
                  info |-> <<>>])

\* step from the observations on.
StepObserved(moved, elapsed, observed) ==
    IF observed.raised # "none"
    THEN Outcome(moved.grid, moved.positions, elapsed, moved.trace,
                 Raised(observed.raised))
    ELSE StepRespawned(moved, elapsed, observed, _respawn_resources(moved.grid))

\* step from the end of the loop on: elapsed_steps is incremented first.
StepMoved(moved) ==
    IF moved.raised # "none"
    THEN Outcome(moved.grid, moved.positions, elapsed_steps, moved.trace,
                 Raised(moved.raised))
    ELSE StepObserved(moved, elapsed_steps + 1,
                      ComputeObservations(moved.grid, moved.positions))

\* The whole of step on the given input: the fields of the environment
\* after the call, what the call returned or raised, and the loop's trace.
StepOutcome(actions) ==
    IF ~ActionsAccepted(actions)
    THEN Outcome(grid, agent_positions, elapsed_steps, <<>>, Raised("AssertionError"))
    ELSE StepMoved(MoveAllAgents(
             [raised |-> "none", grid |-> grid, positions |-> agent_positions,
              rewards |-> [i \in 1..n_agents |-> -RESOURCE_COLLECTION_REWARD],
              trace |-> <<>>],
             actions.items, 0))

\* A call returned done=True for every agent.
ReturnedDone(r) ==
    r.status = "ok" /\ \A i \in 1..Len(r.dones) : r.dones[i]

(***************************************************************************)
(* The inputs of step.                                                     *)
(***************************************************************************)
\* The elements of the wrong-length and non-list inputs.
FewActions == {STEP_FORWARD, STAND_STILL}

StepInputs ==
    {[is_list |-> TRUE, items |-> v] :
        v \in [1..n_agents -> AgentAction \cup {NotAnAction}]}
    \cup {[is_list |-> TRUE, items |-> v] : v \in [1..(n_agents - 1) -> FewActions]}
    \cup {[is_list |-> TRUE, items |-> v] : v \in [1..(n_agents + 1) -> FewActions]}
    \cup {[is_list |-> FALSE, items |-> v] : v \in [1..n_agents -> FewActions]}

(***************************************************************************)
(* The state machine: an environment and its one, sequential caller.       *)
(***************************************************************************)
NoCall == [op |-> "none"]

NoReturn == [status |-> "none"]

\* What reset leaves: it returns None.
ResetEffect(positions, resource_mask) ==
    /\ elapsed_steps' = 0
    /\ agent_positions' = positions
    /\ grid' = _get_initial_grid(grid_width', grid_height', positions, resource_mask)
    /\ done_seen' = FALSE
    /\ pc' = "returned"
    /\ call' = [op |-> "reset"]
    /\ ret' = [status |-> "ok"]
    /\ trace' = <<>>

\* The state after CPRGridEnv(...), whose last statement is self.reset().
Init ==
    \E c \in Configs :
        /\ n_agents = c.n_agents
        /\ grid_width = c.grid_width
        /\ grid_height = c.grid_height
        /\ elapsed_steps = 0
        /\ \E positions \in [1..c.n_agents -> RandomPositions(c.grid_width, c.grid_height)],
              resource_mask \in ResourceMasks(c.grid_width, c.grid_height) :
              /\ agent_positions = positions
              /\ grid = _get_initial_grid(c.grid_width, c.grid_height,
                                          positions, resource_mask)
        /\ done_seen = FALSE
        /\ pc = "returned"
        /\ call = [op |-> "reset"]
        /\ ret = [status |-> "ok"]
        /\ trace = <<>>
        /\ trajectory_rewards = <<>>
        /\ current_timestep = 0

Reset ==
    /\ pc = "ready"
    /\ UNCHANGED <<config, trajectory>>
    /\ \E positions \in [1..n_agents -> RandomPositions(grid_width, grid_height)],
          resource_mask \in ResourceMasks(grid_width, grid_height) :
          ResetEffect(positions, resource_mask)

Step ==
    /\ pc = "ready"
    /\ elapsed_steps < MaxElapsed
    /\ UNCHANGED <<config, trajectory>>
    /\ \E actions \in StepInputs :
          \E out \in {StepOutcome(actions)} :
              /\ grid' = out.grid
              /\ agent_positions' = out.positions
              /\ elapsed_steps' = out.elapsed_steps
              /\ done_seen' = (done_seen \/ ReturnedDone(out.ret))
              /\ pc' = "returned"
              /\ call' = [op |-> "step", actions |-> actions]
              /\ ret' = out.ret
              /\ trace' = out.trace

\* The caller is done with what the last call returned and goes on.
Continue ==
    /\ pc = "returned"
    /\ pc' = "ready"
    /\ call' = NoCall
    /\ ret' = NoReturn
    /\ trace' = <<>>
    /\ UNCHANGED <<config, env, done_seen, trajectory>>

Next == Reset \/ Step \/ Continue

Spec == Init /\ [][Next]_vars

(***************************************************************************)
(* The functions of AgentPosition and _respawn_probability on their own:   *)
(* a caller that holds one AgentPosition, outside any grid, applies        *)
(* get_new_position to it again and again, and calls _respawn_probability. *)
(* trace keeps the last two applications of get_new_position.              *)
(***************************************************************************)
\* The coordinates of the poses are within MaxCoord of the origin.
MaxCoord == 2

\* _respawn_probability is called with 0..MaxL.
MaxL == 9

Coords == (-MaxCoord)..MaxCoord

Poses == {AgentPosition(x, y, o) : x \in Coords, y \in Coords, o \in AgentOrientation}

LastTwo(s) == IF Len(s) > 2 THEN SubSeq(s, Len(s) - 1, Len(s)) ELSE s

FnInit ==
    /\ n_agents = 1
    /\ grid_width = 0
    /\ grid_height = 0
    /\ elapsed_steps = 0
    /\ agent_positions \in {<<p>> : p \in Poses}
    /\ grid = <<>>
    /\ done_seen = FALSE
    /\ pc = "ready"
    /\ call = NoCall
    /\ ret = NoReturn
    /\ trace = <<>>
    /\ trajectory_rewards = <<>>
    /\ current_timestep = 0

FnGetNewPosition ==
    \E action \in AgentAction :
        \E new_position \in {get_new_position(agent_positions[1], action)} :
            /\ new_position.x \in Coords
            /\ new_position.y \in Coords
            /\ agent_positions' = <<new_position>>
            /\ trace' = LastTwo(Append(trace, [action |-> action,
                                               old |-> agent_positions[1],
                                               new |-> new_position]))
            /\ call' = [op |-> "get_new_position",
                        position |-> agent_positions[1], action |-> action]
            /\ ret' = [status |-> "ok", value |-> new_position]
            /\ UNCHANGED <<config, elapsed_steps, grid, done_seen, pc, trajectory>>

FnRespawnProbability ==
    \E l \in 0..MaxL :
        /\ call' = [op |-> "_respawn_probability", l |-> l]
        /\ ret' = [status |-> "ok", value |-> _respawn_probability(l)]
        /\ UNCHANGED <<config, env, done_seen, pc, trace, trajectory>>

FnNext == FnGetNewPosition \/ FnRespawnProbability

FnSpec == FnInit /\ [][FnNext]_vars

(***************************************************************************)
(* Trajectory of src/src/memory.py: a caller builds one trajectory with    *)
(* add_timestep and calls get_returns on it.  add_timestep appends to      *)
(* states, actions, action_probs and next_states when it appends to        *)
(* rewards, and to legal_actions when it increments current_timestep, so   *)
(* these lists are as long as rewards, and legal_actions holds             *)
(* current_timestep elements; get_returns reads none of them.              *)
(*                                                                         *)
(* A discount is a fraction [num, den] with den > 0.  The numbers of       *)
(* get_returns are fractions over one denominator, den^(max_timestep - 1): *)
(* the model holds their numerators, and the denominator next to them.     *)
(***************************************************************************)
\* add_timestep is called only while rewards holds fewer elements than this.
MaxTimesteps == 4

\* The rewards step gives: the reward of a collection, or its negative.
Rewards == {-RESOURCE_COLLECTION_REWARD, RESOURCE_COLLECTION_REWARD}

\* The action_probs add_timestep is called with: a list of two
\* probabilities, or a value that has no len(), as a number or None.
ActionProbs == {[has_len |-> TRUE, len |-> 2], [has_len |-> FALSE]}

\* The legal_actions add_timestep is called with: None (the default), an
\* empty list, or a list of two.
LegalActions ==
    {[is_none |-> TRUE], [is_none |-> FALSE, len |-> 0], [is_none |-> FALSE, len |-> 2]}

\* legal_actions or [True] * len(action_probs): len is evaluated when
\* legal_actions is None or empty, and raises TypeError on a value without
\* len().
AddTimestepRaises(action_probs, legal_actions) ==
    /\ legal_actions.is_none \/ legal_actions.len = 0
    /\ ~action_probs.has_len

\* The discounts get_returns is called with: 0, 1, 1/2 and 2.
Discounts ==
    {[num |-> 0, den |-> 1], [num |-> 1, den |-> 1],
     [num |-> 1, den |-> 2], [num |-> 2, den |-> 1]}

\* max_timestep=None, the default.
None == [is_none |-> TRUE]

\* max_timestep=k.
Timestep(k) == [is_none |-> FALSE, value |-> k]

MaxTimestepInputs == {None} \cup {Timestep(k) : k \in (-1)..(MaxTimesteps + 1)}

\* np.clip(v, lo, hi)
Clip(v, lo, hi) == Min(hi, Max(v, lo))

RECURSIVE Pow(_, _)
Pow(b, e) == IF e = 0 THEN 1 ELSE b * Pow(b, e - 1)

\* a[::-1]
RECURSIVE Reversed(_)
Reversed(a) == IF Len(a) = 0 THEN <<>> ELSE Append(Reversed(Tail(a)), Head(a))

\* discount ** np.arange(max_timestep): element k is discount^k, here its
\* numerator over den^(max_timestep - 1).
DiscountPerTimestep(discount, max_timestep) ==
    [i \in 1..max_timestep |->
        Pow(discount.num, i - 1) * Pow(discount.den, max_timestep - i)]

\* The denominator of the elements of DiscountPerTimestep.
Denominator(discount, max_timestep) ==
    IF max_timestep > 0 THEN Pow(discount.den, max_timestep - 1) ELSE 1

\* numpy multiplies two one-dimensional arrays if they are equally long or
\* one of them has one element, which it repeats; else it raises ValueError.
Broadcastable(a, b) == Len(a) = Len(b) \/ Len(a) = 1 \/ Len(b) = 1

\* a * b of two arrays that are Broadcastable
Multiply(a, b) ==
    [i \in 1..(IF Len(a) = 1 THEN Len(b) ELSE Len(a)) |->
        a[IF Len(a) = 1 THEN 1 ELSE i] * b[IF Len(b) = 1 THEN 1 ELSE i]]

\* a[0] + ... + a[k - 1]
RECURSIVE SumFirst(_, _)
SumFirst(a, k) == IF k = 0 THEN 0 ELSE SumFirst(a, k - 1) + a[k]

\* np.cumsum(a)
Cumsum(a) == [i \in 1..Len(a) |-> SumFirst(a, i)]

\* The last three statements of get_returns, on the product of the arrays.
ReturnsOf(product, denominator, to_go, as_torch) ==
    IF to_go
    THEN [status |-> "ok", returns_per_timestep |-> Reversed(Cumsum(product)),
          den |-> denominator, as_torch |-> as_torch]
    ELSE IF Len(product) = 0
         THEN [status |-> "IndexError"]
         ELSE [status |-> "ok", returns |-> Reversed(Cumsum(product))[1],
               den |-> denominator, as_torch |-> as_torch]

\* get_returns once max_timestep is clipped
ClippedReturns(rs, max_timestep, discount, to_go, as_torch) ==
    IF Broadcastable(rs, DiscountPerTimestep(discount, max_timestep))
    THEN ReturnsOf(Multiply(Reversed(rs),
                            Reversed(DiscountPerTimestep(discount, max_timestep))),
                   Denominator(discount, max_timestep), to_go, as_torch)
    ELSE [status |-> "ValueError"]

\* Trajectory.get_returns: what it returns or raises.
get_returns(rs, timestep, max_timestep, discount, to_go, as_torch) ==
    IF ~(discount.num > 0 /\ discount.num <= discount.den)
    THEN [status |-> "AssertionError"]
    ELSE ClippedReturns(rs,
                        Clip(IF max_timestep.is_none THEN timestep
                             ELSE max_timestep.value, 0, timestep),
                        discount, to_go, as_torch)

\* The state after Trajectory(), with no environment.
TrajInit ==
    /\ n_agents = 0
    /\ grid_width = 0
    /\ grid_height = 0
    /\ elapsed_steps = 0
    /\ agent_positions = <<>>
    /\ grid = <<>>
    /\ done_seen = FALSE
    /\ pc = "ready"
    /\ call = NoCall
    /\ ret = NoReturn
    /\ trace = <<>>
    /\ trajectory_rewards = <<>>
    /\ current_timestep = 0

\* Trajectory.add_timestep: the reward is appended before legal_actions is
\* evaluated, current_timestep is incremented after.
TrajAddTimestep ==
    /\ Len(trajectory_rewards) < MaxTimesteps
    /\ \E reward \in Rewards, action_probs \in ActionProbs,
          legal_actions \in LegalActions :
          /\ trajectory_rewards' = Append(trajectory_rewards, reward)
          /\ current_timestep' =
                IF AddTimestepRaises(action_probs, legal_actions)
                THEN current_timestep ELSE current_timestep + 1
          /\ call' = [op |-> "add_timestep", reward |-> reward,
                      action_probs |-> action_probs,
                      legal_actions |-> legal_actions]
          /\ ret' = IF AddTimestepRaises(action_probs, legal_actions)
                    THEN [status |-> "TypeError"] ELSE [status |-> "ok"]
    /\ UNCHANGED <<config, env, done_seen, pc, trace>>

TrajGetReturns ==
    /\ \E max_timestep \in MaxTimestepInputs, discount \in Discounts,
          to_go \in BOOLEAN, as_torch \in BOOLEAN :
          /\ call' = [op |-> "get_returns", max_timestep |-> max_timestep,
                      discount |-> discount, to_go |-> to_go, as_torch |-> as_torch]
          /\ ret' = get_returns(trajectory_rewards, current_timestep, max_timestep,
                                discount, to_go, as_torch)
    /\ UNCHANGED <<config, env, done_seen, pc, trace, trajectory>>

TrajNext == TrajAddTimestep \/ TrajGetReturns

TrajSpec == TrajInit /\ [][TrajNext]_vars

(***************************************************************************)
(* Properties.                                                             *)
(***************************************************************************)
AgentCells(g) ==
    {c \in CellCoords(grid_width, grid_height) : Cell(g, c[1], c[2]) = AGENT}

AgentCoords(positions) ==
    {<<positions[i].x, positions[i].y>> : i \in 1..Len(positions)}

\* The last call was a step that got as far as its loop.
Stepped == call.op = "step" /\ Len(trace) > 0

\* C1: after reset and after any sequence of step calls, the number of
\* AGENT cells of the grid is n_agents, and the AGENT cells are the agents'
\* positions.
C1_AgentCellsAreTheAgents ==
    /\ Cardinality(AgentCells(grid)) = n_agents
    /\ AgentCells(grid) = AgentCoords(agent_positions)

\* C2: when step moves an agent to a different cell, right after that
\* agent's move the old cell is EMPTY and the new cell is AGENT.
C2_MoveFreesOldCell ==
    \A i \in 1..Len(trace) :
        (trace[i].new.x # trace[i].old.x \/ trace[i].new.y # trace[i].old.y)
        => /\ Cell(trace[i].grid_after, trace[i].old.x, trace[i].old.y) = EMPTY
           /\ Cell(trace[i].grid_after, trace[i].new.x, trace[i].new.y) = AGENT

\* C3: what step returns is a list of n_agents observations, the i-th being
\* the field of view of agent i, with n_agents rewards, n_agents dones and
\* an empty info.
C3_OneObservationPerAgent ==
    (call.op = "step" /\ ret.status = "ok")
    => /\ ret.observations.kind = "list"
       /\ Len(ret.observations.items) = n_agents
       /\ \A i \in 1..n_agents :
             ret.observations.items[i] = _get_observation(grid, agent_positions, i - 1).fov
       /\ Len(ret.rewards) = n_agents
       /\ Len(ret.dones) = n_agents
       /\ ret.info = <<>>

\* C4: from reset, one of the first max_steps calls of step with an action
\* per agent returns done=True for all agents. elapsed_steps counts the
\* calls since reset that got past the loop over the agents.
C4_DoneWithinMaxSteps == elapsed_steps >= max_steps => done_seen

\* C5: once a step has returned done=True for all agents, a later step
\* before the next reset leaves the grid, the poses and elapsed_steps as
\* they are and does not return done=False.
C5_DoneIsTerminal ==
    [][(pc = "ready" /\ done_seen /\ call'.op = "step")
       => /\ UNCHANGED env
          /\ ret'.status = "ok" => ReturnedDone(ret')]_vars

\* C6: a step whose action vector has one action per agent, one of them
\* not an AgentAction, is rejected and leaves the grid, the poses and
\* elapsed_steps as they are.
C6_InvalidActionNotApplied ==
    [][(/\ pc = "ready"
        /\ call'.op = "step"
        /\ call'.actions.is_list
        /\ Len(call'.actions.items) = n_agents
        /\ \E i \in 1..n_agents : call'.actions.items[i] \notin AgentAction)
       => (ret'.status # "ok" /\ UNCHANGED env)]_vars

\* C7: a step whose action vector is not a list of n_agents actions is
\* rejected with an error before any agent is processed and leaves the
\* grid, the poses and elapsed_steps as they are.
C7_WrongLengthRejected ==
    [][(/\ pc = "ready"
        /\ call'.op = "step"
        /\ ~(call'.actions.is_list /\ Len(call'.actions.items) = n_agents))
       => (ret'.status = "AssertionError" /\ trace' = <<>> /\ UNCHANGED env)]_vars

\* A step called with too many actions, or with a value that is not a
\* list, was rejected after at least one step had already elapsed.
C7_Witness ==
    /\ call.op = "step"
    /\ \/ Len(call.actions.items) > n_agents
       \/ ~call.actions.is_list
    /\ ret.status = "AssertionError"
    /\ elapsed_steps > 0

\* C8: an agent that takes ROTATE_LEFT or ROTATE_RIGHT keeps its (x, y) and
\* its orientation turns by one step, modulo 4, to the left or to the right.
C8_RotateInPlace ==
    \A i \in 1..Len(trace) :
        /\ trace[i].action = ROTATE_LEFT
           => trace[i].new = AgentPosition(trace[i].old.x, trace[i].old.y,
                                           (trace[i].old.o + 3) % 4)
        /\ trace[i].action = ROTATE_RIGHT
           => trace[i].new = AgentPosition(trace[i].old.x, trace[i].old.y,
                                           (trace[i].old.o + 1) % 4)

\* C9: the field of view cropped for an agent has the shape
\* (fov_squares_front, 2 * fov_squares_side + 1), whatever the grid size,
\* the agent's position and its orientation.
C9_FovShape ==
    \A h \in 0..(n_agents - 1) :
        Shape(FovWindow(grid, agent_positions[h + 1]))
            = <<fov_squares_front, 2 * fov_squares_side + 1>>

\* C10: the reward of an agent is +1 when the cell of its resolved pose
\* holds RESOURCE as the agent is processed and -1 otherwise; in the +1
\* case the pose becomes the target cell and that cell becomes AGENT. The
\* rewards and the poses step leaves are those of the loop.
C10_RewardIffResource ==
    /\ \A i \in 1..Len(trace) :
          LET e == trace[i]
              on_resource == Cell(e.grid_before, e.new.x, e.new.y) = RESOURCE
          IN  /\ e.reward = IF on_resource THEN 1 ELSE -1
              /\ on_resource
                 => /\ e.new = e.candidate
                    /\ Cell(e.grid_after, e.candidate.x, e.candidate.y) = AGENT
              /\ agent_positions[i] = e.new
    /\ (call.op = "step" /\ ret.status = "ok")
       => \A i \in 1..n_agents : ret.rewards[i] = trace[i].reward

\* Step returned, the second of two agents having collected a resource
\* and the first not.
C10_Witness ==
    /\ call.op = "step"
    /\ ret.status = "ok"
    /\ n_agents = 2
    /\ ret.rewards = <<-1, 1>>
    /\ trace[2].new # trace[2].old
    /\ Cell(trace[2].grid_before, trace[2].new.x, trace[2].new.y) = RESOURCE
    /\ Cell(grid, trace[2].new.x, trace[2].new.y) = AGENT

\* The pose agent j has at the moment agent i is processed by the loop of
\* the last step: the agents before i have moved, the others have not.
PoseWhenProcessed(i, j) ==
    IF j < i THEN trace[j].new
    ELSE IF j <= Len(trace) THEN trace[j].old
    ELSE agent_positions[j]

\* The last call was a step with one AgentAction per agent.
ValidStep ==
    /\ call.op = "step"
    /\ ActionsAccepted(call.actions)
    /\ \A k \in 1..n_agents : IsAgentAction(call.actions.items[k])

\* C11: in a step with one valid action per agent, an agent whose candidate
\* pose is outside the grid or on the cell of another agent raises no
\* error: the step returns normally, the agent's pose is unchanged and its
\* reward is -1.
C11_InfeasibleMoveIsNoError ==
    ValidStep
    => \A i \in 1..Len(trace) :
          (\/ ~_is_position_in_grid(trace[i].candidate)
           \/ \E j \in (1..n_agents) \ {i} :
                 /\ PoseWhenProcessed(i, j).x = trace[i].candidate.x
                 /\ PoseWhenProcessed(i, j).y = trace[i].candidate.y)
          => /\ ret.status = "ok"
             /\ trace[i].new = trace[i].old
             /\ agent_positions[i] = trace[i].old
             /\ trace[i].reward = -RESOURCE_COLLECTION_REWARD

ResourceCount(g) ==
    Cardinality({c \in CellCoords(grid_width, grid_height) :
                    Cell(g, c[1], c[2]) = RESOURCE})

\* C12: the moves of a step never increase the number of RESOURCE cells:
\* the grid an agent's move leaves holds at most as many RESOURCE cells as
\* the grid it found, and each agent finds the grid the one before it left.
C12_MovesNeverAddResources ==
    \A i \in 1..Len(trace) :
        /\ ResourceCount(trace[i].grid_after) <= ResourceCount(trace[i].grid_before)
        /\ i > 1 => trace[i].grid_before = trace[i - 1].grid_after

\* In a step of two agents the first moved to an EMPTY cell and left the
\* number of RESOURCE cells as it was, and the second collected a resource.
C12_Witness ==
    /\ call.op = "step"
    /\ Len(trace) = 2
    /\ trace[1].new # trace[1].old
    /\ ResourceCount(trace[1].grid_after) = ResourceCount(trace[1].grid_before)
    /\ ResourceCount(trace[2].grid_after) < ResourceCount(trace[2].grid_before)

\* The number of RESOURCE cells of g whose Euclidean distance from (x, y) is
\* at most ball_radius; a position outside the grid holds no resource.
\* C13: for every EMPTY cell of the grid, extracting the ball around it
\* completes without error and the length L that respawn takes from it is
\* the number of RESOURCE cells within ball_radius of the cell.
C13_BallCountsResources ==
    \A c \in CellCoords(grid_width, grid_height) :
        Cell(grid, c[1], c[2]) = EMPTY
        => /\ _extract_ball(grid, c[1], c[2]).raised = "none"
           /\ Len(_extract_ball(grid, c[1], c[2]).ball)
                 = Cardinality({d \in CellCoords(grid_width, grid_height) :
                      /\ (d[1] - c[1]) * (d[1] - c[1]) + (d[2] - c[2]) * (d[2] - c[2])
                            <= ball_radius * ball_radius
                      /\ Cell(grid, d[1], d[2]) = RESOURCE})

\* C14: the respawn probability, in hundredths, is 0 for L = 0, 1 for L in
\* {1, 2}, 5 for L in {3, 4} and 10 for L > 4; it is non-decreasing in L
\* and zero only at L = 0.
C14_RespawnProbabilityTable ==
    /\ call.op = "_respawn_probability"
       => /\ call.l = 0 => ret.value = 0
          /\ call.l \in {1, 2} => ret.value = 1
          /\ call.l \in {3, 4} => ret.value = 5
          /\ call.l > 4 => ret.value = 10
    /\ \A a, b \in 0..MaxL :
          /\ a <= b => _respawn_probability(a) <= _respawn_probability(b)
          /\ _respawn_probability(a) = 0 <=> a = 0

\* _respawn_probability was called with L = 4 and returned 0.05.
C14_Witness ==
    /\ call.op = "_respawn_probability"
    /\ call.l = 4
    /\ ret.value = 5

\* C15: STEP_FORWARD and then STEP_BACKWARD, and STEP_LEFT and then
\* STEP_RIGHT, give back the pose they started from, in x, y and orientation.
C15_StepRoundTrip ==
    Len(trace) = 2
    => /\ (trace[1].action = STEP_FORWARD /\ trace[2].action = STEP_BACKWARD)
          => (trace[2].old = trace[1].new /\ trace[2].new = trace[1].old)
       /\ (trace[1].action = STEP_LEFT /\ trace[2].action = STEP_RIGHT)
          => (trace[2].old = trace[1].new /\ trace[2].new = trace[1].old)

\* A pose facing LEFT stepped forward to another cell and then backward,
\* and is back where it was.
C15_Witness ==
    /\ Len(trace) = 2
    /\ trace[1].action = STEP_FORWARD
    /\ trace[2].action = STEP_BACKWARD
    /\ trace[1].old.o = LEFT
    /\ trace[1].new # trace[1].old
    /\ trace[2].new = trace[1].old

\* C16: rotate_left and then rotate_right, and rotate_right and then
\* rotate_left, give back the orientation they started from, and the
\* orientation after any rotation is one of UP, RIGHT, DOWN, LEFT.
C16_RotateRoundTrip ==
    /\ \A i \in 1..Len(trace) :
          trace[i].action \in {ROTATE_LEFT, ROTATE_RIGHT}
          => trace[i].new.o \in {UP, RIGHT, DOWN, LEFT}
    /\ Len(trace) = 2
       => /\ (trace[1].action = ROTATE_LEFT /\ trace[2].action = ROTATE_RIGHT)
             => trace[2].new.o = trace[1].old.o
          /\ (trace[1].action = ROTATE_RIGHT /\ trace[2].action = ROTATE_LEFT)
             => trace[2].new.o = trace[1].old.o

\* A pose facing UP rotated left, to LEFT, and then right, back to UP.
C16_Witness ==
    /\ Len(trace) = 2
    /\ trace[1].action = ROTATE_LEFT
    /\ trace[2].action = ROTATE_RIGHT
    /\ trace[1].old.o = UP
    /\ trace[1].new.o = LEFT
    /\ trace[2].new.o = UP

\* The displacement of a forward step, by orientation.
ForwardVector(o) ==
    CASE o = UP -> <<0, -1>>
      [] o = RIGHT -> <<1, 0>>
      [] o = DOWN -> <<0, 1>>
      [] o = LEFT -> <<-1, 0>>

Displaced(p, v, sign) == AgentPosition(p.x + sign * v[1], p.y + sign * v[2], p.o)

\* C17: STEP_FORWARD displaces the pose by the forward vector of its
\* orientation, STEP_BACKWARD by the negation, STEP_LEFT by the forward
\* vector of the orientation rotated left and STEP_RIGHT by that of the
\* orientation rotated right; the orientation is kept.
C17_DisplacementTable ==
    \A i \in 1..Len(trace) :
        LET e == trace[i]
        IN  /\ e.action = STEP_FORWARD
               => e.new = Displaced(e.old, ForwardVector(e.old.o), 1)
            /\ e.action = STEP_BACKWARD
               => e.new = Displaced(e.old, ForwardVector(e.old.o), -1)
            /\ e.action = STEP_LEFT
               => e.new = Displaced(e.old, ForwardVector(OrientationRotateLeft(e.old.o)), 1)
            /\ e.action = STEP_RIGHT
               => e.new = Displaced(e.old, ForwardVector(OrientationRotateRight(e.old.o)), 1)

\* A pose facing UP rotated right, to RIGHT, and then stepped to its right,
\* one cell down, still facing RIGHT.
C17_Witness ==
    /\ Len(trace) = 2
    /\ trace[1].action = ROTATE_RIGHT
    /\ trace[1].old.o = UP
    /\ trace[2].action = STEP_RIGHT
    /\ trace[2].old.o = RIGHT
    /\ trace[2].new = AgentPosition(trace[2].old.x, trace[2].old.y + 1, RIGHT)

\* The action vector with STAND_STILL for the agent at index i.
StandingStill(actions, i) ==
    [is_list |-> actions.is_list,
     items |-> [actions.items EXCEPT ![i] = STAND_STILL]]

\* The grid, the poses, elapsed_steps, what is returned or raised, and the
\* pose and the reward of every agent processed are those of the outcome.
SameOutcome(out, g, positions, elapsed, r, tr) ==
    /\ g = out.grid
    /\ positions = out.positions
    /\ elapsed = out.elapsed_steps
    /\ r = out.ret
    /\ Len(tr) = Len(out.trace)
    /\ \A k \in 1..Len(tr) :
          /\ tr[k].new = out.trace[k].new
          /\ tr[k].reward = out.trace[k].reward

\* C18: a step in which an agent takes TAG leaves the grid, the poses of
\* all agents and the rewards that the same step leaves from the same state
\* when that agent takes STAND_STILL.
C18_TagIsStandStill ==
    [][(/\ pc = "ready"
        /\ call'.op = "step"
        /\ ActionsAccepted(call'.actions))
       => \A i \in 1..n_agents :
             call'.actions.items[i] = TAG
             => SameOutcome(StepOutcome(StandingStill(call'.actions, i)),
                            grid', agent_positions', elapsed_steps', ret', trace')]_vars

\* A step of two agents returned: the first took TAG and kept its pose,
\* the second moved and collected a resource.
C18_Witness ==
    /\ call.op = "step"
    /\ ret.status = "ok"
    /\ n_agents = 2
    /\ call.actions.items[1] = TAG
    /\ trace[1].new = trace[1].old
    /\ trace[2].new # trace[2].old
    /\ ret.rewards = <<-RESOURCE_COLLECTION_REWARD, RESOURCE_COLLECTION_REWARD>>

\* C19: after reset, whatever the state it was called in, elapsed_steps is
\* 0, there is a pose per agent, every pose is inside the grid with one of
\* the 4 orientations, every agent's cell holds AGENT (so none holds
\* RESOURCE) and no other cell holds AGENT.
C19_ResetPostconditions ==
    call.op = "reset"
    => /\ ret.status = "ok"
       /\ elapsed_steps = 0
       /\ Len(agent_positions) = n_agents
       /\ \A i \in 1..n_agents :
             /\ agent_positions[i].x \in 0..(grid_width - 1)
             /\ agent_positions[i].y \in 0..(grid_height - 1)
             /\ agent_positions[i].o \in {UP, RIGHT, DOWN, LEFT}
             /\ Cell(grid, agent_positions[i].x, agent_positions[i].y) = AGENT
             /\ Cell(grid, agent_positions[i].x, agent_positions[i].y) # RESOURCE
       /\ \A c \in CellCoords(grid_width, grid_height) :
             Cell(grid, c[1], c[2]) = AGENT => c \in AgentCoords(agent_positions)

\* reset has left two agents on different cells of a grid that also holds
\* a RESOURCE cell and an EMPTY cell.
C19_Witness ==
    /\ call.op = "reset"
    /\ n_agents = 2
    /\ Cardinality(AgentCoords(agent_positions)) = 2
    /\ ResourceCount(grid) = 1
    /\ Cardinality(AgentCells(grid)) = 2

\* The grid the loop of the last step left, which respawn and the
\* observations start from.
MovedGrid == trace[Len(trace)].grid_after

\* C20: in a step with one valid action per agent, the respawn runs before
\* the observations are computed: when the respawn of the moved grid raises,
\* that is what the step raises, whatever the observations would do; and
\* the observations a step returns are those of the grid and the poses as
\* the step leaves them.
C20_RespawnBeforeObservations ==
    (ValidStep /\ Len(trace) = n_agents /\ n_agents > 0)
    => /\ _respawn_resources(MovedGrid).raised # "none"
          => ret.status = _respawn_resources(MovedGrid).raised
       /\ ret.status = "ok"
          => IF ret.observations.kind = "list"
             THEN \A i \in 1..Len(ret.observations.items) :
                     ret.observations.items[i]
                         = _get_observation(grid, agent_positions, i - 1).fov
             ELSE ret.observations.array
                      = _get_observation(grid, agent_positions, n_agents - 1).fov

\* The candidate poses of the i-th and the j-th processed agents are the
\* same cell of the grid, which holds no agent when the i-th is processed.
SameFreeCandidate(i, j) ==
    /\ trace[i].candidate.x = trace[j].candidate.x
    /\ trace[i].candidate.y = trace[j].candidate.y
    /\ _is_move_feasible(trace[i].grid_before, trace[i].candidate)

\* C21: the agents are processed in index order, each on the grid the one
\* before it left: its feasibility check and its resource check read that
\* grid. When two agents' candidate poses are the same free cell, the one
\* with the lower index moves there, with reward +1 exactly if the cell
\* held a resource, and the other keeps its pose and gets reward -1.
C21_LowerIndexMovesFirst ==
    \A i \in 1..Len(trace) :
        /\ trace[i].agent_handle = i - 1
        /\ i > 1 => trace[i].grid_before = trace[i - 1].grid_after
        /\ trace[i].new = IF _is_move_feasible(trace[i].grid_before, trace[i].candidate)
                          THEN trace[i].candidate ELSE trace[i].old
        /\ \A j \in (i + 1)..Len(trace) :
              SameFreeCandidate(i, j)
              => /\ trace[i].new = trace[i].candidate
                 /\ trace[i].reward = RESOURCE_COLLECTION_REWARD
                    <=> _has_resource(trace[i].grid_before, trace[i].candidate)
                 /\ trace[j].new = trace[j].old
                 /\ trace[j].reward = -RESOURCE_COLLECTION_REWARD

\* A step of two agents returned: both stepped to the same cell, which
\* held a resource; the first is there with reward +1, the second has
\* kept its pose with reward -1.
C21_Witness ==
    /\ call.op = "step"
    /\ ret.status = "ok"
    /\ Len(trace) = 2
    /\ trace[1].old.x # trace[2].old.x
    /\ SameFreeCandidate(1, 2)
    /\ trace[2].candidate # trace[2].old
    /\ agent_positions[1] = trace[1].candidate
    /\ agent_positions[2] = trace[2].old
    /\ ret.rewards = <<RESOURCE_COLLECTION_REWARD, -RESOURCE_COLLECTION_REWARD>>

\* C22: a step with one valid action per agent increments elapsed_steps by
\* exactly 1, and the dones it returns are all True when the grid its moves
\* left holds no RESOURCE cell or elapsed_steps has reached max_steps, and
\* all False otherwise.
C22_ElapsedAndDones ==
    [][(/\ pc = "ready"
        /\ call'.op = "step"
        /\ ActionsAccepted(call'.actions)
        /\ \A k \in 1..n_agents : IsAgentAction(call'.actions.items[k]))
       => /\ elapsed_steps' = elapsed_steps + 1
          /\ ret'.status = "ok"
             => /\ Len(ret'.dones) = n_agents
                /\ \A i \in 1..n_agents :
                      ret'.dones[i]
                      = (\/ ResourceCount(trace'[Len(trace')].grid_after) = 0
                         \/ elapsed_steps' >= max_steps)]_vars

\* The grid cell at (x, y) of the agent's frame: r cells forward of the
\* agent and c - fov_squares_side cells to its left; EMPTY outside the grid.
DirectFovCell(g, agent_position, r, c) ==
    LET forward == step_forward(agent_position)
        left == step_left(agent_position)
        x == agent_position.x + r * (forward.x - agent_position.x)
               + (c - fov_squares_side) * (left.x - agent_position.x)
        y == agent_position.y + r * (forward.y - agent_position.y)
               + (c - fov_squares_side) * (left.y - agent_position.y)
    IN  IF x \in 0..(grid_width - 1) /\ y \in 0..(grid_height - 1)
        THEN Cell(g, x, y) ELSE EMPTY

\* C23: for every agent, the window that _extract_fov crops by rotating,
\* padding and slicing has a cell (r, c) for every r below
\* fov_squares_front and every c up to 2 * fov_squares_side, and that cell
\* is the grid cell r forward and c - fov_squares_side to the left of the
\* agent, EMPTY outside the grid; cell (0, fov_squares_side) is the agent's.
C23_FovIsCoordinateTransform ==
    \A h \in 0..(n_agents - 1) :
        LET fov == FovWindow(grid, agent_positions[h + 1])
        IN  /\ \A r \in 0..(fov_squares_front - 1), c \in 0..(2 * fov_squares_side) :
                  /\ r + 1 <= Len(fov)
                  /\ c + 1 <= Len(fov[r + 1])
                  /\ fov[r + 1][c + 1] = DirectFovCell(grid, agent_positions[h + 1], r, c)
            /\ fov[1][fov_squares_side + 1]
                   = Cell(grid, agent_positions[h + 1].x, agent_positions[h + 1].y)

\* C24: in a step whose loop has processed every agent, what comes after
\* the loop changes no cell of the grid except from EMPTY to RESOURCE,
\* leaves every pose as the loop left it, and leaves elapsed_steps at its
\* value after the step's one increment.
C24_RespawnFrame ==
    [][(/\ pc = "ready"
        /\ call'.op = "step"
        /\ n_agents > 0
        /\ Len(trace') = n_agents)
       => /\ \A c \in CellCoords(grid_width, grid_height) :
                Cell(grid', c[1], c[2]) # Cell(trace'[n_agents].grid_after, c[1], c[2])
                => /\ Cell(trace'[n_agents].grid_after, c[1], c[2]) = EMPTY
                   /\ Cell(grid', c[1], c[2]) = RESOURCE
          /\ \A i \in 1..n_agents : agent_positions'[i] = trace'[i].new
          /\ elapsed_steps' = elapsed_steps + 1]_vars

\* A step returned, so its respawn has visited every cell, on a grid that
\* holds agents and resources, which are as the moves left them.
C24_Witness ==
    /\ call.op = "step"
    /\ ret.status = "ok"
    /\ Len(trace) = n_agents
    /\ ResourceCount(grid) > 0
    /\ grid = MovedGrid
    /\ \A i \in 1..n_agents : agent_positions[i] = trace[i].new

\* C25: once the grid holds no RESOURCE cell, a step with one valid action
\* per agent leaves it without RESOURCE cell and returns done=True for
\* every agent.
C25_DepletionIsAbsorbing ==
    [][(/\ pc = "ready"
        /\ ResourceCount(grid) = 0
        /\ call'.op = "step"
        /\ ActionsAccepted(call'.actions)
        /\ \A k \in 1..n_agents : IsAgentAction(call'.actions.items[k]))
       => /\ ResourceCount(grid') = 0
          /\ ReturnedDone(ret')]_vars

\* C26: after reset and after any sequence of step calls, whether they
\* returned or raised, every agent's pose is inside the grid and the cell
\* at every agent's position holds AGENT.
C26_PosesOnAgentCells ==
    /\ Len(agent_positions) = n_agents
    /\ \A i \in 1..n_agents :
          /\ agent_positions[i].x >= 0
          /\ agent_positions[i].x < grid_width
          /\ agent_positions[i].y >= 0
          /\ agent_positions[i].y < grid_height
          /\ Cell(grid, agent_positions[i].x, agent_positions[i].y) = AGENT

\* After a second step an agent is on a cell that held a resource when it
\* moved there, inside the grid, and the cell holds AGENT.
C26_Witness ==
    /\ call.op = "step"
    /\ elapsed_steps = 2
    /\ Len(trace) = n_agents
    /\ \E i \in 1..n_agents :
          /\ trace[i].new # trace[i].old
          /\ Cell(trace[i].grid_before, trace[i].new.x, trace[i].new.y) = RESOURCE
          /\ agent_positions[i] = trace[i].new
          /\ Cell(grid, agent_positions[i].x, agent_positions[i].y) = AGENT

\* C27: after reset and after any sequence of step calls, the (x, y)
\* positions of distinct agents are pairwise different.
C27_NoTwoAgentsOnACell ==
    \A i, j \in 1..n_agents :
        i # j => \/ agent_positions[i].x # agent_positions[j].x
                 \/ agent_positions[i].y # agent_positions[j].y

\* C28: on a trajectory with T recorded timesteps (every add_timestep
\* returned, so rewards holds current_timestep = T elements),
\* get_returns(max_timestep=t, discount=1, to_go=False) with 0 < t <= T
\* returns the sum of the first t rewards, and with max_timestep=None (and
\* T >= 1) the sum of all T rewards.
C28_FiniteHorizonReturn ==
    (/\ call.op = "get_returns"
     /\ call.discount = [num |-> 1, den |-> 1]
     /\ ~call.to_go
     /\ Len(trajectory_rewards) = current_timestep
     /\ current_timestep >= 1
     /\ \/ call.max_timestep.is_none
        \/ /\ call.max_timestep.value > 0
           /\ call.max_timestep.value <= current_timestep)
    => /\ ret.status = "ok"
       /\ ret.den = 1
       /\ ret.returns = SumFirst(trajectory_rewards, IF call.max_timestep.is_none
                                          THEN current_timestep
                                          ELSE call.max_timestep.value)

====
